---- MODULE Spec2Model ----
(***************************************************************************)
(* Market data snapshot resolver of maru-homepage (src/app.py).            *)
(*                                                                         *)
(* fetch_market_snapshot() resolves three indicators (nikkei, usdjpy, jgb) *)
(* through _fetch_close_yf(ticker), which is memoized per ticker by        *)
(* st.cache_data(ttl=600), and falls back to static/market.json.           *)
(* Streamlit runs the script once per session and rerun, so several calls  *)
(* of fetch_market_snapshot may be in progress at once; they share the     *)
(* per-ticker cache.  One lookup of the cached function is one step.       *)
(***************************************************************************)
EXTENDS Integers, Sequences, FiniteSets, TLC

(* ---------------------------- bounds ---------------------------------- *)
\* number of clock advances explored
MaxTicks == 2
\* seconds the clock advances in one step of the model
TickStep == 300

(* --------------------------- constants -------------------------------- *)
\* ttl=60 * 10 of the st.cache_data decorator
TTL == 600

\* Python's None; every number the model uses is >= 0
None == -1

\* closes a provider can report; 0 stands for 0.0
Nums == {0, 1}

\* NaN cell of a Close column (removed by dropna)
NaN == -2

\* the sessions whose script runs call fetch_market_snapshot
Sessions == {"s1", "s2"}

\* the sessions that call in the serial specifications
Serial == {"s1"}

Indicators == {"nikkei", "usdjpy", "jgb"}

\* the candidate tickers of each indicator, in the order the code tries them
Candidates ==
  [nikkei |-> <<"^N225">>,
   usdjpy |-> <<"JPY=X", "USDJPY=X">>,
   jgb    |-> <<"JP10YT=XX", "JP10YT=RR", "^JGBL">>]

Tickers == {"^N225", "JPY=X", "USDJPY=X", "JP10YT=XX", "JP10YT=RR", "^JGBL"}

\* labels of the JGB slot (the source strings are Japanese)
LabelDefault  == "JGB10Y"
LabelYield    == "JGB10Y yield"
LabelFutures  == "JGB futures (reference)"
LabelFallback == "JGB10Y yield (fallback)"

\* the (ticker, label, suffix) list of the JGB loop
JgbList ==
  << [tkr |-> "JP10YT=XX", label |-> LabelYield,   suffix |-> "%"],
     [tkr |-> "JP10YT=RR", label |-> LabelYield,   suffix |-> "%"],
     [tkr |-> "^JGBL",     label |-> LabelFutures, suffix |-> ""] >>

(* ------------------------ pure functions ------------------------------ *)
\* Python truth value of a float-or-None
Truthy(v) == v # None /\ v # 0

\* Python's  a or b
PyOr(a, b) == IF Truthy(a) THEN a ELSE b

RECURSIVE DropNa(_)
DropNa(s) ==
  IF s = <<>> THEN <<>>
  ELSE IF Head(s) = NaN THEN DropNa(Tail(s))
       ELSE <<Head(s)>> \o DropNa(Tail(s))

\* what yf.download can hand back: it raises, or returns a frame
\*   kind "none"    : None
\*   kind "empty"   : a frame with no rows
\*   kind "noclose" : rows, but no Close column
\*   kind "close"   : rows with a Close column (cells may be NaN)
Frames ==
  { [kind |-> "raise",   close |-> <<>>],
    [kind |-> "none",    close |-> <<>>],
    [kind |-> "empty",   close |-> <<>>],
    [kind |-> "noclose", close |-> <<>>],
    [kind |-> "close",   close |-> <<NaN>>],
    [kind |-> "close",   close |-> <<0>>],
    [kind |-> "close",   close |-> <<1>>],
    [kind |-> "close",   close |-> <<0, 1, NaN>>],
    [kind |-> "close",   close |-> <<1, 0>>] }

_safe_last_close(df) ==
  IF df.kind \in {"none", "empty"} THEN None
  ELSE IF df.kind = "close"
       THEN LET s == DropNa(df.close)
            IN  IF Len(s) > 0 THEN s[Len(s)] ELSE None
       ELSE None

\* the try block of _fetch_close_yf once yf.download has answered with df;
\* ok = FALSE when it raises
FetchTry(df) ==
  IF df.kind = "raise" THEN [ok |-> FALSE, v |-> None]
  ELSE [ok |-> TRUE, v |-> _safe_last_close(df)]

\* body of _fetch_close_yf: avail is "yf is not None", df the provider's answer
_fetch_close_yf(avail, df) ==
  IF ~avail THEN [ok |-> TRUE, v |-> None]
  ELSE IF FetchTry(df).ok THEN FetchTry(df) ELSE [ok |-> TRUE, v |-> None]

(* ----------------------- static/market.json --------------------------- *)
\* a JSON value under a key of static/market.json
\*   "absent": the key is not there      "null": null
\*   "num"   : a number                  "text": a string that is no number
JAbsent == [t |-> "absent", v |-> None]
JNull   == [t |-> "null",   v |-> None]
JText   == [t |-> "text",   v |-> None]
JNum(n) == [t |-> "num",    v |-> n]

\* numbers kept in the static record; distinct from every live close
StaticNums == {2}

JVals == {JAbsent, JNull, JText} \cup {JNum(n) : n \in StaticNums}

FileKeys == {"nikkei", "usdjpy", "jgb_yield"}

NoKeys == [k \in FileKeys |-> JAbsent]

\* states of static/market.json
\*   "missing"    : p.exists() is false
\*   "unparsable" : read_text or json.loads raises
\*   "nondict"    : valid JSON that is not an object (d.get raises)
\*   "dict"       : a JSON object
StaticFiles ==
  { [kind |-> k, d |-> NoKeys] : k \in {"missing", "unparsable", "nondict"} }
  \cup { [kind |-> "dict", d |-> d] : d \in [FileKeys -> JVals] }

\* the record as shipped, and its absence
FullFile == [kind |-> "dict", d |-> [k \in FileKeys |-> JNum(2)]]
MissingFile == [kind |-> "missing", d |-> NoKeys]

\* d.get(key): None for an absent key and for null
DictGet(d, k) == IF d[k].t \in {"absent", "null"} THEN JNull ELSE d[k]

\* float(x) for a JSON value x that is not None; ok = FALSE when it raises
PyFloat(x) ==
  IF x.t = "num" THEN [ok |-> TRUE, v |-> x.v] ELSE [ok |-> FALSE, v |-> None]

\* one entry of the dict literal:
\*   float(d.get(k)) if d.get(k) is not None else None
FbEntry(d, k) ==
  IF DictGet(d, k) # JNull THEN PyFloat(DictGet(d, k))
  ELSE [ok |-> TRUE, v |-> None]

FbNone == [nikkei |-> None, usdjpy |-> None, jgb10y |-> None]

\* the try block of _fallback_market_json; ok = FALSE when it raises
FallbackTry(f) ==
  IF f.kind = "missing" THEN [ok |-> TRUE, fb |-> FbNone]
  ELSE IF f.kind \in {"unparsable", "nondict"} THEN [ok |-> FALSE, fb |-> FbNone]
  ELSE LET n == FbEntry(f.d, "nikkei")
           u == FbEntry(f.d, "usdjpy")
           j == FbEntry(f.d, "jgb_yield")
       IN  IF n.ok /\ u.ok /\ j.ok
           THEN [ok |-> TRUE,
                 fb |-> [nikkei |-> n.v, usdjpy |-> u.v, jgb10y |-> j.v]]
           ELSE [ok |-> FALSE, fb |-> FbNone]

\* mutant: the except branch hands back 0.0 for every key
_fallback_market_json_zeros(f) ==
  IF FallbackTry(f).ok THEN FallbackTry(f)
  ELSE [ok |-> TRUE, fb |-> [nikkei |-> 0, usdjpy |-> 0, jgb10y |-> 0]]

\* mutant: no except branch
_fallback_market_json_noexcept(f) == FallbackTry(f)

\* _fallback_market_json: the try block, and the except branch
_fallback_market_json(f) ==
  IF FallbackTry(f).ok THEN FallbackTry(f) ELSE [ok |-> TRUE, fb |-> FbNone]

(* ------------------------------ state --------------------------------- *)
VARIABLES
  yf,        \* TRUE iff "import yfinance as yf" succeeded
  now,       \* the clock, in seconds
  cache,     \* st.cache_data of _fetch_close_yf: ticker -> entry
  file,      \* static/market.json
  pc,        \* where each session's call of fetch_market_snapshot stands
  loc,       \* the locals of each call
  log,       \* the lookups of each call so far (history)
  start,     \* when each call began, and whether every entry stored in the
             \* cache was then at least TTL old (history)
  fileRead,  \* the static file as each call read it (history)
  snap,      \* the dict each call returned
  prev,      \* the last call that returned (history)
  base,      \* prev as it was when each call began (history)
  ticks      \* clock advances so far

vars == <<yf, now, cache, file, pc, loc, log, start, fileRead, snap, prev,
          base, ticks>>

NoEntry == [has |-> FALSE, val |-> None, at |-> 0]

\* locals before line 440 has run
NoLoc == [nikkei |-> None, usdjpy |-> None, jgb_val |-> None,
          jgb_label |-> LabelDefault, jgb_suffix |-> "%", i |-> 1]

NoSnap == [nikkei |-> None, usdjpy |-> None, jgb |-> None,
           jgb_label |-> "", jgb_suffix |-> ""]

NoFile == [kind |-> "unread", d |-> NoKeys]

NoStart == [t |-> 0, cold |-> FALSE]

\* marks a ticker a call did not look up
NotTried == None - 2

\* what a call got for ticker t: the result of its lookup, or NotTried
ResOf(lg, t) ==
  IF \E k \in 1..Len(lg) : lg[k].tkr = t
  THEN lg[CHOOSE k \in 1..Len(lg) : lg[k].tkr = t].res
  ELSE NotTried

\* store time of the oldest cache entry among the lookups lg
Oldest(lg) ==
  IF lg = <<>> THEN 0
  ELSE CHOOSE m \in {lg[k].at : k \in 1..Len(lg)} :
         \A k \in 1..Len(lg) : m <= lg[k].at

NoPrev == [has |-> FALSE, snap |-> NoSnap, file |-> NoFile,
           res |-> [t \in Tickers |-> NotTried], start |-> 0, oldest |-> 0]

\* mutant: nothing is served from the cache
Alive_TtlZero(e, t) == e.has /\ t - e.at < 0

\* mutant: an entry never expires
Alive_NoExpiry(e, t) == e.has

\* an entry of the cache is alive at time t until its ttl has passed
Alive(e, t) == e.has /\ t - e.at < TTL

\* an entry that is served now
Fresh(e) == Alive(e, now)

\* mutant: the download is attempted whether or not yfinance is there
LookupResults_NoGuard(tkr, Fr) ==
  IF Alive(cache[tkr], now)
  THEN { [ok |-> TRUE, v |-> cache[tkr].val, kind |-> "hit",
          at |-> cache[tkr].at] }
  ELSE { [ok |-> _fetch_close_yf(TRUE, df).ok,
          v |-> _fetch_close_yf(TRUE, df).v,
          kind |-> "download", at |-> now] : df \in Fr }

\* what one call _fetch_close_yf(tkr) through the cache can yield now, when
\* Fr is what yf.download can answer: a hit, or a run of the body whose
\* return value is stored
LookupResults(tkr, Fr) ==
  IF Fresh(cache[tkr])
  THEN { [ok |-> TRUE, v |-> cache[tkr].val, kind |-> "hit",
          at |-> cache[tkr].at] }
  ELSE IF ~yf
       THEN { [ok |-> _fetch_close_yf(FALSE, [kind |-> "none", close |-> <<>>]).ok,
               v |-> _fetch_close_yf(FALSE, [kind |-> "none", close |-> <<>>]).v,
               kind |-> "unavailable", at |-> now] }
       ELSE { [ok |-> _fetch_close_yf(TRUE, df).ok,
               v |-> _fetch_close_yf(TRUE, df).v,
               kind |-> "download", at |-> now] : df \in Fr }

\* mutant: a None returned by the body is not stored
Store_OnlyNumbers(tkr, r) ==
  IF r.kind = "hit" \/ ~r.ok \/ r.v = None THEN cache
  ELSE [cache EXCEPT ![tkr] = [has |-> TRUE, val |-> r.v, at |-> now]]

\* the cache after the lookup: a value returned by the body is stored
Store(tkr, r) ==
  IF r.kind = "hit" \/ ~r.ok THEN cache
  ELSE [cache EXCEPT ![tkr] = [has |-> TRUE, val |-> r.v, at |-> now]]

LogEntry(tkr, r) == [tkr |-> tkr, kind |-> r.kind, res |-> r.v, at |-> r.at]

\* the state after the module is loaded, with the static record one of F
InitWith(F) ==
  /\ yf \in BOOLEAN
  /\ now = 0
  /\ ticks = 0
  /\ cache = [t \in Tickers |-> NoEntry]
  /\ file \in F
  /\ pc = [c \in Sessions |-> "idle"]
  /\ loc = [c \in Sessions |-> NoLoc]
  /\ log = [c \in Sessions |-> <<>>]
  /\ start = [c \in Sessions |-> NoStart]
  /\ fileRead = [c \in Sessions |-> NoFile]
  /\ snap = [c \in Sessions |-> NoSnap]
  /\ prev = NoPrev
  /\ base = [c \in Sessions |-> NoPrev]

(* ----------------------------- actions -------------------------------- *)
\* a script run reaches fetch_market_snapshot()
Call(c) ==
  /\ pc[c] = "idle"
  /\ pc' = [pc EXCEPT ![c] = "nikkei"]
  /\ start' = [start EXCEPT ![c] =
                 [t |-> now,
                  cold |-> \A t \in Tickers :
                             cache[t].has => now - cache[t].at >= TTL]]
  /\ base' = [base EXCEPT ![c] = prev]
  /\ UNCHANGED <<yf, now, cache, file, loc, log, fileRead, snap, prev, ticks>>

\* the common part of a lookup step
Looked(c, tkr, r) ==
  /\ cache' = Store(tkr, r)
  /\ log' = [log EXCEPT ![c] = Append(@, LogEntry(tkr, r))]
  /\ UNCHANGED <<yf, now, file, start, fileRead, snap, prev, base, ticks>>

\* nikkei = _fetch_close_yf("^N225")
FetchNikkei(c, Fr) ==
  /\ pc[c] = "nikkei"
  /\ \E r \in LookupResults("^N225", Fr) :
       /\ Looked(c, "^N225", r)
       /\ IF r.ok
          THEN /\ loc' = [loc EXCEPT ![c].nikkei = r.v]
               /\ pc' = [pc EXCEPT ![c] = "usdjpy1"]
          ELSE /\ loc' = loc
               /\ pc' = [pc EXCEPT ![c] = "raised"]

\* whether  a or <right operand>  evaluates its right operand
OrEvaluatesRight(a) == ~Truthy(a)

\* usdjpy = _fetch_close_yf("JPY=X") or ...: the left operand
FetchUsdjpy1(c, Fr) ==
  /\ pc[c] = "usdjpy1"
  /\ \E r \in LookupResults("JPY=X", Fr) :
       /\ Looked(c, "JPY=X", r)
       /\ IF r.ok
          THEN /\ loc' = [loc EXCEPT ![c].usdjpy = r.v]
               /\ pc' = [pc EXCEPT ![c] =
                           IF OrEvaluatesRight(r.v) THEN "usdjpy2" ELSE "jgb"]
          ELSE /\ loc' = loc
               /\ pc' = [pc EXCEPT ![c] = "raised"]

\* ... or _fetch_close_yf("USDJPY=X"): the right operand
FetchUsdjpy2(c, Fr) ==
  /\ pc[c] = "usdjpy2"
  /\ \E r \in LookupResults("USDJPY=X", Fr) :
       /\ Looked(c, "USDJPY=X", r)
       /\ IF r.ok
          THEN /\ loc' = [loc EXCEPT ![c].usdjpy = PyOr(loc[c].usdjpy, r.v)]
               /\ pc' = [pc EXCEPT ![c] = "jgb"]
          ELSE /\ loc' = loc
               /\ pc' = [pc EXCEPT ![c] = "raised"]

\* mutant: the loop tests the value's truth, so that 0.0 is passed over
JgbAccepts_Truthy(v) == Truthy(v)

\* the test of the JGB loop body:  if v is not None
JgbAccepts(v) == v # None

\* mutant: a JGB candidate that failed is asked once more before the next
FetchJgb_RetryOnce(c, Fr) ==
  /\ pc[c] = "jgb"
  /\ LET e == JgbList[loc[c].i]
     IN \E r \in LookupResults(e.tkr, Fr) :
          /\ Looked(c, e.tkr, r)
          /\ IF ~r.ok
             THEN /\ loc' = loc
                  /\ pc' = [pc EXCEPT ![c] = "raised"]
             ELSE IF JgbAccepts(r.v)
             THEN /\ loc' = [loc EXCEPT ![c].jgb_val = r.v,
                                        ![c].jgb_label = e.label,
                                        ![c].jgb_suffix = e.suffix]
                  /\ pc' = [pc EXCEPT ![c] = "fallback"]
             ELSE IF \A k \in 1..Len(log[c]) : log[c][k].tkr # e.tkr
             THEN /\ loc' = loc
                  /\ pc' = pc
             ELSE IF loc[c].i < Len(JgbList)
             THEN /\ loc' = [loc EXCEPT ![c].i = @ + 1]
                  /\ pc' = pc
             ELSE /\ loc' = loc
                  /\ pc' = [pc EXCEPT ![c] = "fallback"]

\* one iteration of the for loop over the JGB candidates
FetchJgb(c, Fr) ==
  /\ pc[c] = "jgb"
  /\ LET e == JgbList[loc[c].i]
     IN \E r \in LookupResults(e.tkr, Fr) :
          /\ Looked(c, e.tkr, r)
          /\ IF ~r.ok
             THEN /\ loc' = loc
                  /\ pc' = [pc EXCEPT ![c] = "raised"]
             ELSE IF JgbAccepts(r.v)
             THEN /\ loc' = [loc EXCEPT ![c].jgb_val = r.v,
                                        ![c].jgb_label = e.label,
                                        ![c].jgb_suffix = e.suffix]
                  /\ pc' = [pc EXCEPT ![c] = "fallback"]
             ELSE IF loc[c].i < Len(JgbList)
             THEN /\ loc' = [loc EXCEPT ![c].i = @ + 1]
                  /\ pc' = pc
             ELSE /\ loc' = loc
                  /\ pc' = [pc EXCEPT ![c] = "fallback"]

\* lines 458-473: fill the slots that are None from fb, build the dict
Assemble(l, fb) ==
  [nikkei |-> IF l.nikkei = None THEN fb.nikkei ELSE l.nikkei,
   usdjpy |-> IF l.usdjpy = None THEN fb.usdjpy ELSE l.usdjpy,
   jgb    |-> IF l.jgb_val = None THEN fb.jgb10y ELSE l.jgb_val,
   jgb_label  |-> IF l.jgb_val = None THEN LabelFallback ELSE l.jgb_label,
   jgb_suffix |-> IF l.jgb_val = None THEN "%" ELSE l.jgb_suffix]

\* lines 457-473: read the static record and return the dict
Fallback(c) ==
  /\ pc[c] = "fallback"
  /\ LET r == _fallback_market_json(file)
     IN  /\ fileRead' = [fileRead EXCEPT ![c] = file]
         /\ IF r.ok
            THEN /\ snap' = [snap EXCEPT ![c] = Assemble(loc[c], r.fb)]
                 /\ pc' = [pc EXCEPT ![c] = "done"]
            ELSE /\ snap' = snap
                 /\ pc' = [pc EXCEPT ![c] = "raised"]
  /\ UNCHANGED <<yf, now, cache, file, loc, log, start, prev, base, ticks>>

\* the caller has the dict; the call is over
Return(c) ==
  /\ pc[c] = "done"
  /\ prev' = [has |-> TRUE, snap |-> snap[c], file |-> fileRead[c],
              res |-> [t \in Tickers |-> ResOf(log[c], t)],
              start |-> start[c].t, oldest |-> Oldest(log[c])]
  /\ pc' = [pc EXCEPT ![c] = "idle"]
  /\ loc' = [loc EXCEPT ![c] = NoLoc]
  /\ log' = [log EXCEPT ![c] = <<>>]
  /\ start' = [start EXCEPT ![c] = NoStart]
  /\ fileRead' = [fileRead EXCEPT ![c] = NoFile]
  /\ snap' = [snap EXCEPT ![c] = NoSnap]
  /\ base' = [base EXCEPT ![c] = NoPrev]
  /\ UNCHANGED <<yf, now, cache, file, ticks>>

\* time passes; the cache drops the entries whose ttl has passed
Tick ==
  /\ ticks < MaxTicks
  /\ ticks' = ticks + 1
  /\ now' = now + TickStep
  /\ cache' = [t \in Tickers |->
                 IF Alive(cache[t], now') THEN cache[t] ELSE NoEntry]
  /\ UNCHANGED <<yf, file, pc, loc, log, start, fileRead, snap, prev,
                 base>>

\* static/market.json is replaced out of band by one of F
ReplaceStaticFile(F) ==
  /\ \E f \in F : f # file /\ file' = f
  /\ UNCHANGED <<yf, now, cache, pc, loc, log, start, fileRead, snap, prev,
                 base, ticks>>

\* one step of a call of session c
Step(c, Fr) ==
  \/ Call(c)
  \/ FetchNikkei(c, Fr)
  \/ FetchUsdjpy1(c, Fr)
  \/ FetchUsdjpy2(c, Fr)
  \/ FetchJgb(c, Fr)
  \/ Fallback(c)
  \/ Return(c)

(* ------------------------- specifications ----------------------------- *)
\* the provider answers with a close of 1 or not at all
UpOrDown == { [kind |-> "raise", close |-> <<>>],
              [kind |-> "close", close |-> <<1>>] }

\* the static record with one value replaced by text
OneKeyOff ==
  { [kind |-> "dict", d |-> [FullFile.d EXCEPT ![k] = JText]] :
      k \in FileKeys }

\* the states of the static record of SpecStatic
SomeFiles ==
  { [kind |-> k, d |-> NoKeys] :
      k \in {"missing", "unparsable", "nondict", "dict"} }
  \cup { [kind |-> "dict", d |-> [k \in FileKeys |-> JNull]] }
  \cup {FullFile} \cup OneKeyOff

\* Spec: calls one after another while time passes
Init == InitWith({FullFile, MissingFile})

Next ==
  \/ \E c \in Serial : Step(c, UpOrDown)
  \/ Tick

Spec == Init /\ [][Next]_vars

\* SpecStatic: calls one after another at one instant, with every answer of
\* the provider and the static record replaced between them
InitStatic == InitWith(SomeFiles)

NextStatic ==
  \/ \E c \in Serial : Step(c, Frames)
  \/ ReplaceStaticFile(SomeFiles)

SpecStatic == InitStatic /\ [][NextStatic]_vars

\* SpecFair: calls one after another at one instant, with every answer of the
\* provider and the static record shipped or missing; a session whose script
\* is running a call goes on running it (every lookup returns: yf.download
\* answers or raises)
InitFair == InitWith({FullFile, MissingFile})

NextFair ==
  \/ \E c \in Serial : Step(c, Frames)
  \/ ReplaceStaticFile({FullFile, MissingFile})

SpecFair ==
  InitFair /\ [][NextFair]_vars /\ \A c \in Serial : WF_vars(Step(c, Frames))

(* --------------------------- properties ------------------------------- *)
\* the indicator a ticker is a candidate of
IndOf(tkr) ==
  CHOOSE ind \in Indicators :
    \E k \in 1..Len(Candidates[ind]) : Candidates[ind][k] = tkr

\* the key of an indicator in static/market.json
KeyOf(ind) == IF ind = "jgb" THEN "jgb_yield" ELSE ind

\* the value of an indicator in a returned dict
ValueOf(s, ind) ==
  IF ind = "nikkei" THEN s.nikkei ELSE IF ind = "usdjpy" THEN s.usdjpy ELSE s.jgb

IsNumber(v) == v # None /\ v # NotTried

\* every candidate of ind was looked up by the call with lookups lg, and failed
AllFailed(lg, ind) ==
  \A k \in 1..Len(Candidates[ind]) : ResOf(lg, Candidates[ind][k]) = None

\* some candidate of ind returned a number to the call with lookups lg
SomeNumber(lg, ind) ==
  \E k \in 1..Len(Candidates[ind]) : IsNumber(ResOf(lg, Candidates[ind][k]))

\* the number of the first candidate of ind, in list order, that returned one
FirstNumber(lg, ind) ==
  LET k == CHOOSE i \in 1..Len(Candidates[ind]) :
             /\ IsNumber(ResOf(lg, Candidates[ind][i]))
             /\ \A j \in 1..(i - 1) : ~IsNumber(ResOf(lg, Candidates[ind][j]))
  IN  ResOf(lg, Candidates[ind][k])

\* the static record f holds a value for ind
StaticHas(f, ind) == f.kind = "dict" /\ f.d[KeyOf(ind)].t = "num"

\* the static record f has no value for ind: no file, no readable object,
\* no key, or null
StaticLacks(f, ind) ==
  \/ f.kind \in {"missing", "unparsable", "nondict"}
  \/ f.kind = "dict" /\ f.d[KeyOf(ind)].t \in {"absent", "null"}

\* the only mark of the static fallback a returned dict can carry
Degraded(s) == s.jgb_label = LabelFallback

\* no lookup of lg went to the provider
NoDownload(lg) == \A k \in 1..Len(lg) : lg[k].kind # "download"

\* C1: within one resolution, once a candidate of an indicator has returned
\* a number, no later candidate of that indicator is looked up.
C1_ShortCircuit ==
  \A c \in Sessions : \A i, j \in 1..Len(log[c]) :
    (i < j /\ IndOf(log[c][i].tkr) = IndOf(log[c][j].tkr))
      => log[c][i].res = None

\* C2: when some candidate of an indicator returned a number, the returned
\* value of the indicator is the number of the first candidate in list order
\* that returned one (0.0 included), and the JGB slot is not labelled fallback.
C2_FirstSuccessWins ==
  \A c \in Sessions : pc[c] = "done" =>
    \A ind \in Indicators : SomeNumber(log[c], ind) =>
      /\ ValueOf(snap[c], ind) = FirstNumber(log[c], ind)
      /\ ind = "jgb" => snap[c].jgb_label # LabelFallback

\* C3: when every candidate of an indicator failed and the static record
\* holds a value for it, the returned value is the static value and the
\* returned dict is marked as degraded.
C3_StaticFallbackDegraded ==
  \A c \in Sessions : pc[c] = "done" =>
    \A ind \in Indicators :
      (AllFailed(log[c], ind) /\ StaticHas(fileRead[c], ind)) =>
        /\ ValueOf(snap[c], ind) = fileRead[c].d[KeyOf(ind)].v
        /\ Degraded(snap[c])

\* C4: when every candidate of an indicator failed and the static record has
\* no value for it, the returned value is None, never a number.
C4_AbsentNeverDefault ==
  \A c \in Sessions : pc[c] = "done" =>
    \A ind \in Indicators :
      (AllFailed(log[c], ind) /\ StaticLacks(fileRead[c], ind)) =>
        ValueOf(snap[c], ind) = None

\* C4 witness: a call returned with every candidate of every indicator failed
\* after a download, and the static record a dict without the keys.
C4_Witness ==
  \E c \in Sessions :
    /\ pc[c] = "done"
    /\ \A ind \in Indicators : AllFailed(log[c], ind)
    /\ \E k \in 1..Len(log[c]) : log[c][k].kind = "download"
    /\ fileRead[c] = [kind |-> "dict", d |-> NoKeys]
    /\ snap[c].nikkei = None /\ snap[c].usdjpy = None /\ snap[c].jgb = None

\* C5 as stated: a call that begins less than TTL after the call before it
\* began, and reads the same static record, returns the same dict and makes
\* no provider call.
C5_AnyTwoCallsWithinTtl ==
  \A c \in Sessions :
    (/\ pc[c] = "done"
     /\ base[c].has
     /\ start[c].t - base[c].start < TTL
     /\ fileRead[c] = base[c].file)
      => (snap[c] = base[c].snap /\ NoDownload(log[c]))

\* C5 amended: a call that begins after another call returned, and returns
\* less than TTL after the oldest cache entry that call used was stored, and
\* reads the same static record, returns the same dict and makes no provider
\* call.
C5_WithinTtlOfOldestEntry ==
  \A c \in Sessions :
    (/\ pc[c] = "done"
     /\ base[c].has
     /\ now - base[c].oldest < TTL
     /\ fileRead[c] = base[c].file)
      => (snap[c] = base[c].snap /\ NoDownload(log[c]))

\* C5 witness: a later call, begun after time has passed, returned the live
\* values of the call before it from the cache.
C5_Witness ==
  \E c \in Sessions :
    /\ pc[c] = "done"
    /\ base[c].has
    /\ yf
    /\ start[c].t > base[c].start
    /\ now - base[c].oldest < TTL
    /\ fileRead[c] = base[c].file
    /\ snap[c] = base[c].snap
    /\ snap[c].nikkei = 1
    /\ \A k \in 1..Len(log[c]) : log[c][k].kind = "hit"

\* the tickers of indicator ind among the lookups lg, in the order looked up
TriedOf(lg, ind) ==
  LET IsOf(e) == IndOf(e.tkr) = ind
      sel == SelectSeq(lg, IsOf)
  IN  [k \in 1..Len(sel) |-> sel[k].tkr]

\* s is an initial part of t
IsPrefix(s, t) == Len(s) <= Len(t) /\ \A k \in 1..Len(s) : s[k] = t[k]

\* what a call with lookups lg and static record f has to return for ind:
\* the first number, else what the static record gives
Resolved(lg, f, ind) ==
  IF SomeNumber(lg, ind) THEN FirstNumber(lg, ind)
  ELSE IF ind = "nikkei" THEN _fallback_market_json(f).fb.nikkei
  ELSE IF ind = "usdjpy" THEN _fallback_market_json(f).fb.usdjpy
  ELSE _fallback_market_json(f).fb.jgb10y

\* C6: a call that begins when every entry stored in the cache is at least
\* TTL old looks nothing up from the cache: each lookup runs the function
\* again (a provider call when yfinance is there), starting with the first
\* candidate of every indicator and in list order, and the returned dict is
\* made of the new outcomes.
C6_ExpiryReResolves ==
  \A c \in Sessions : (start[c].cold /\ base[c].has) =>
    /\ \A k \in 1..Len(log[c]) :
         /\ log[c][k].kind # "hit"
         /\ yf => log[c][k].kind = "download"
         /\ log[c][k].at >= start[c].t
    /\ \A ind \in Indicators : IsPrefix(TriedOf(log[c], ind), Candidates[ind])
    /\ pc[c] = "done" =>
         \A ind \in Indicators :
           /\ Len(TriedOf(log[c], ind)) >= 1
           /\ ValueOf(snap[c], ind) = Resolved(log[c], fileRead[c], ind)

\* C6 witness: after the entries of an earlier call expired, a call returned
\* a dict that differs from the earlier one, its lookups all downloads.
C6_Witness ==
  \E c \in Sessions :
    /\ pc[c] = "done"
    /\ start[c].cold /\ base[c].has /\ yf
    /\ base[c].snap.nikkei = 1 /\ snap[c].nikkei # 1
    /\ fileRead[c] = base[c].file
    /\ \A k \in 1..Len(log[c]) : log[c][k].kind = "download"

\* the numbers a returned dict can hold
Numbers == Nums \cup StaticNums

\* a dict with the five keys, each indicator a number or None
ValidSnap(s) ==
  /\ DOMAIN s = {"nikkei", "usdjpy", "jgb", "jgb_label", "jgb_suffix"}
  /\ s.nikkei \in Numbers \cup {None}
  /\ s.usdjpy \in Numbers \cup {None}
  /\ s.jgb \in Numbers \cup {None}
  /\ s.jgb_label \in {LabelYield, LabelFutures, LabelFallback}
  /\ s.jgb_suffix \in {"%", ""}

\* C7: no call ends in an exception, and every returned dict has the five
\* keys with each indicator a number or None, whatever the provider answers
\* and whatever the state of the static record.
C7_AlwaysValidSnapshot ==
  \A c \in Sessions :
    /\ pc[c] # "raised"
    /\ pc[c] = "done" => ValidSnap(snap[c])

\* C7 witness: a call returned although its downloads failed and the static
\* record was not readable.
C7_Witness ==
  \E c \in Sessions :
    /\ pc[c] = "done"
    /\ fileRead[c].kind \in {"unparsable", "nondict"}
    /\ \E k \in 1..Len(log[c]) :
         log[c][k].kind = "download" /\ log[c][k].res = None
    /\ ValidSnap(snap[c])

\* the inputs of indicator ind are the same in the call of c and in the call
\* before it: the results of its candidates and its entry of the static record
SameInputs(c, ind) ==
  /\ \A k \in 1..Len(Candidates[ind]) :
       ResOf(log[c], Candidates[ind][k]) = base[c].res[Candidates[ind][k]]
  /\ fileRead[c].d[KeyOf(ind)] = base[c].file.d[KeyOf(ind)]

C9_UnavailableProvider ==
  ~yf =>
    \A c \in Sessions :
      /\ \A k \in 1..Len(log[c]) :
           log[c][k].kind # "download" /\ log[c][k].res = None
      /\ pc[c] = "done" =>
           /\ Len(log[c]) = Cardinality(Tickers)
           /\ snap[c] = Assemble(NoLoc, _fallback_market_json(fileRead[c]).fb)

\* C9 witness: without yfinance a call ran the function for all six tickers
\* and returned the values of the static record.
C9_Witness ==
  \E c \in Sessions :
    /\ ~yf
    /\ pc[c] = "done"
    /\ Len(log[c]) = 6
    /\ \A k \in 1..Len(log[c]) : log[c][k].kind = "unavailable"
    /\ fileRead[c] = FullFile
    /\ snap[c].nikkei = 2 /\ snap[c].usdjpy = 2 /\ snap[c].jgb = 2

\* C10: within one resolution the candidates of an indicator are looked up
\* in list order, and a candidate is looked up only after every earlier
\* candidate of the indicator was looked up and failed.
C10_RegistryOrder ==
  \A c \in Sessions : \A ind \in Indicators :
    /\ IsPrefix(TriedOf(log[c], ind), Candidates[ind])
    /\ \A k \in 2..Len(TriedOf(log[c], ind)) :
         \A j \in 1..(k - 1) : ResOf(log[c], Candidates[ind][j]) = None


\* the lookups of lg that went to the provider
Downloads(lg) == {k \in 1..Len(lg) : lg[k].kind = "download"}

\* no ticker is looked up twice, so at most six lookups and six provider calls
NoRetry(lg) ==
  /\ \A i, j \in 1..Len(lg) : lg[i].tkr = lg[j].tkr => i = j
  /\ Len(lg) <= Cardinality(Tickers)
  /\ Cardinality(Downloads(lg)) <= Cardinality(Tickers)

\* C11: within one resolution no ticker is asked for twice, so there are at
\* most six provider calls, and every call that began returns a dict.
C11_NoRetryBoundedWork ==
  /\ [](\A c \in Sessions : NoRetry(log[c]))
  /\ \A c \in Serial : (pc[c] = "nikkei") ~> (pc[c] = "done")

\* C11 witness: a call returned after six provider calls, all failed.
C11_Witness ==
  \E c \in Sessions :
    /\ pc[c] = "done"
    /\ Cardinality(Downloads(log[c])) = 6
    /\ \A k \in 1..Len(log[c]) : log[c][k].res = None


\* every indicator of the call with lookups lg was resolved by a candidate
AllLive(lg) == \A ind \in Indicators : SomeNumber(lg, ind)

\* C12: a resolution in which every indicator was resolved by a live
\* candidate does not read the static record (it is read only when some
\* indicator exhausted its candidates; finding that there is no file is not
\* counted as reading it), and no step of a resolution writes it.
C12_StaticReadOnlyOnFallback ==
  /\ [](\A c \in Sessions :
          (pc[c] = "done" /\ AllLive(log[c])) =>
            fileRead[c].kind \in {"unread", "missing"})
  /\ [][(pc' # pc \/ log' # log) => file' = file]_vars


\* C13: the values of a returned dict all come from one refresh of the cache:
\* no call returns a value it fetched itself after an expiry together with a
\* value that was still cached from an earlier call.
C13_NoTornSnapshot ==
  \A c \in Sessions : pc[c] = "done" =>
    \/ \A k \in 1..Len(log[c]) : log[c][k].kind = "hit"
    \/ \A k \in 1..Len(log[c]) : log[c][k].kind # "hit"


\* C14: a provider call that fails is stored like a success, and while less
\* than TTL has passed since a failed call for a ticker, a lookup of the
\* ticker makes no provider call and yields the failure from the cache.
C14_FailuresMemoized ==
  [][\A c \in Sessions :
       Len(log'[c]) = Len(log[c]) + 1 =>
         LET e == log'[c][Len(log'[c])]
         IN  /\ (e.kind = "download" /\ e.res = None) =>
                  cache'[e.tkr] = [has |-> TRUE, val |-> None, at |-> now]
             /\ (/\ cache[e.tkr].has
                 /\ cache[e.tkr].val = None
                 /\ now - cache[e.tkr].at < TTL) =>
                  /\ e.kind = "hit"
                  /\ e.res = None
                  /\ e.at = cache[e.tkr].at
                  /\ cache' = cache]_vars

\* C14 witness: after time has passed, a call was served the failure of an
\* earlier provider call from the cache and went on to the static record.
C14_Witness ==
  \E c \in Sessions :
    /\ yf
    /\ pc[c] = "done"
    /\ \E k \in 1..Len(log[c]) :
         /\ log[c][k].tkr = "^N225"
         /\ log[c][k].kind = "hit"
         /\ log[c][k].res = None
         /\ log[c][k].at < start[c].t
    /\ fileRead[c] = FullFile
    /\ snap[c].nikkei = 2


\* the first JGB candidate whose lookup gave a value other than None
FirstJgb(lg) ==
  LET K == {k \in 1..Len(lg) : IndOf(lg[k].tkr) = "jgb" /\ lg[k].res # None}
  IN  lg[CHOOSE k \in K : \A m \in K : k <= m].tkr

\* C15: in a returned dict the JGB label and suffix name the source of the
\* value: the yield label and "%" when JP10YT=XX or JP10YT=RR gave it, the
\* futures label and "" when ^JGBL gave it, and the fallback label, with
\* "%", exactly when no candidate gave a number.
C15_JgbLabelMatchesSource ==
  \A c \in Sessions : pc[c] = "done" =>
    /\ SomeNumber(log[c], "jgb") =>
         /\ FirstJgb(log[c]) \in {"JP10YT=XX", "JP10YT=RR"} =>
              snap[c].jgb_label = LabelYield /\ snap[c].jgb_suffix = "%"
         /\ FirstJgb(log[c]) = "^JGBL" =>
              snap[c].jgb_label = LabelFutures /\ snap[c].jgb_suffix = ""
         /\ snap[c].jgb = FirstNumber(log[c], "jgb")
    /\ snap[c].jgb_label = LabelFallback <=> ~SomeNumber(log[c], "jgb")
    /\ ~SomeNumber(log[c], "jgb") => snap[c].jgb_suffix = "%"

\* C15 witness: both yield tickers gave nothing and the futures ticker gave
\* 0.0, which is returned under the futures label with no suffix.
C15_Witness ==
  \E c \in Sessions :
    /\ pc[c] = "done"
    /\ Len(log[c]) = 5
    /\ log[c][3].res = None
    /\ log[c][4].res = None
    /\ log[c][5].tkr = "^JGBL"
    /\ log[c][5].res = 0
    /\ snap[c].jgb = 0
    /\ snap[c].jgb_label = LabelFutures
    /\ snap[c].jgb_suffix = ""

====
